---------------------------- MODULE Spec2Model ----------------------------
(***************************************************************************)
(* A model of atom.cpp: the CAtom object.  An instance keeps its attribute *)
(* values in a slot array sized from its type's registered member mapping  *)
(* (Atom_new, Atom_getattro, Atom_setattro) and keeps its signal           *)
(* connections in a vector of (signal, CallbackSet) pairs sorted by the    *)
(* signal's address (Atom::connect, Atom::disconnect, Atom::emit).         *)
(*                                                                         *)
(* Objects are integers standing for addresses: 0 is the null pointer,     *)
(* signals are 1..NumSignals (the order of the integers is the order of    *)
(* the addresses), callbacks are 1, 2 and 3, slot values are               *)
(* 1..NumValues.  Member, Signal and CallbackSet are declared in headers   *)
(* that are not part of atom.cpp; what the model assumes of them is        *)
(* written down where they are defined below.                              *)
(***************************************************************************)
EXTENDS Integers, Sequences, FiniteSets

VARIABLES
    registry,    \* the static `registry` dict: type -> member mapping
    ob_type,     \* per instance: its type
    m_members,   \* per instance: the member mapping stored by Atom_new
    m_values,    \* per instance: the slot array, 0 is a null slot
    m_cbsets,    \* per instance: the CSVector pointer and its contents
    stack,       \* the CallbackSet::dispatch calls that are in progress
    order,       \* history: per instance and signal, what the calls so far register
    calls,       \* history: per instance and slot, how often defaultValue ran and succeeded
    hist         \* history: the call that made the last step and what it returned

vars == <<registry, ob_type, m_members, m_values, m_cbsets, stack, order, calls, hist>>

-----------------------------------------------------------------------------
(* Bounds of the model. *)

NumTypes == 1
MaxAtoms == 2
NumValues == 2
MaxDefaultCalls == 2
NumSignals == 2
MaxRegs == 3
NumReSignals == 2
MaxReRegs == 2

Types == 1..NumTypes
Values == 1..NumValues
Signals == 1..NumSignals

(* Callbacks are told apart by identity only: the A, B and C of a signal   *)
(* with three callbacks.                                                   *)
Callbacks == {1, 2, 3}

(* The attribute names used, and the member mappings a type may register:  *)
(* a mapping is the sequence of its member names, the member at position i *)
(* has index i - 1.                                                        *)
Names == {"x", "y"}
Mappings == {<< >>, <<"x">>, <<"x", "y">>}

(* An object that is neither a Signal nor callable, as an argument. *)
NotSignal == NumSignals + 1
NotCallable == Cardinality(Callbacks) + 1

Atoms == 1..Len(m_members)

-----------------------------------------------------------------------------
(* The record of the last call. *)

(* op is the call, ret what it returned ("" while it has not returned) and *)
(* exc the error it left set.  name, val, old, dcall and vcall belong to   *)
(* attribute access: the value passed or returned, the slot before the     *)
(* call, whether defaultValue and validate were called.  sig and cb are    *)
(* the arguments of a connect or disconnect, 0 for one left out (for       *)
(* disconnect() old is the number of entries it discarded), and for emit   *)
(* and next the signal and the callback dispatch is running.               *)
NoHist ==
    [op |-> "ready", self |-> 0, name |-> "", sig |-> 0, cb |-> 0,
     old |-> 0, val |-> 0, dcall |-> FALSE, vcall |-> FALSE, ret |-> "", exc |-> ""]

-----------------------------------------------------------------------------
(* Member (member.h): index(), validate() and defaultValue().  The two     *)
(* calls run code of the member; the model takes their outcome as an input *)
(* of the action (a value, or 0 for a null result with the error set).     *)

RECURSIVE index(_, _)
index(members, name) ==
    IF members = << >> THEN -1
    ELSE IF members[Len(members)] = name THEN Len(members) - 1
    ELSE index(SubSeq(members, 1, Len(members) - 1), name)

(* PyDict_GetItem( self->m_members, name ) *)
IsMember(members, name) == index(members, name) >= 0

-----------------------------------------------------------------------------
(* The registry. *)

LookupMembers(type) == registry[type]

RegisterMembers(type, members) ==
    /\ registry' = [registry EXCEPT ![type] = [set |-> TRUE, members |-> members]]
    /\ hist' = [NoHist EXCEPT !.op = "register", !.ret = "true"]
    /\ UNCHANGED <<ob_type, m_members, m_values, m_cbsets, stack, order, calls>>

-----------------------------------------------------------------------------
(* Attribute access. *)

NoCalls == [n |-> 0, ok |-> 0, set |-> FALSE]

(* cppy::clear and Py_CLEAR leave a null pointer. *)
NullMembers == [null |-> TRUE, dict |-> << >>]

(* The slot array after Atom_setattro( self, name, value ): value 0 is a   *)
(* null value (a deletion); res is what the call made on the way returned: *)
(* member->validate for a member, PyObject_GenericSetAttr otherwise, 0 for *)
(* a failure.                                                              *)
(* The other order, for comparison: the value is stored as it comes and   *)
(* validated afterwards.                                                   *)
setattro_store_first(values, members, name, value, res) ==
    IF IsMember(members, name)
    THEN IF value = 0
         THEN [values EXCEPT ![index(members, name) + 1] = 0]
         ELSE [values EXCEPT ![index(members, name) + 1] =
                   IF res = 0 THEN value ELSE res]
    ELSE values

(* For comparison: a deletion that goes through the check of a set and     *)
(* keeps the slot when it fails.                                           *)
setattro_checked_delete(values, members, name, value, res) ==
    IF IsMember(members, name)
    THEN IF res = 0
         THEN values
         ELSE [values EXCEPT ![index(members, name) + 1] =
                   IF value = 0 THEN 0 ELSE res]
    ELSE values

setattro(values, members, name, value, res) ==
    IF IsMember(members, name)
    THEN IF value = 0
         THEN [values EXCEPT ![index(members, name) + 1] = 0]
         ELSE IF res = 0
              THEN values
              ELSE [values EXCEPT ![index(members, name) + 1] = res]
    ELSE values

setattro_fails(members, name, value, res) ==
    IF IsMember(members, name) THEN value # 0 /\ res = 0 ELSE res = 0

setattro_exc(members, name, value, res) ==
    IF ~setattro_fails(members, name, value, res) THEN ""
    ELSE IF IsMember(members, name) THEN "ValidationError" ELSE "AttributeError"

(* Whether member->validate is called. *)
setattro_validates(members, name, value) ==
    IsMember(members, name) /\ value # 0

(* The history of a slot after Atom_setattro: a set or a deletion that     *)
(* went through.                                                           *)
setattro_calls(cs, members, name, value, res) ==
    IF IsMember(members, name) /\ ~setattro_fails(members, name, value, res)
    THEN [cs EXCEPT ![index(members, name) + 1].set = TRUE]
    ELSE cs

(* PyDict_GetItem on a null m_members reads through the null pointer: the  *)
(* process ends there, and the model records the call and changes nothing. *)
Atom_setattro(a, name, value, res) ==
    /\ IF m_members[a].null
       THEN /\ hist' = [NoHist EXCEPT !.op = "crash", !.self = a, !.name = name]
            /\ UNCHANGED <<m_values, calls>>
       ELSE LET members == m_members[a].dict
                exc == setattro_exc(members, name, value, res)
            IN  /\ m_values' = [m_values EXCEPT
                       ![a] = setattro(@, members, name, value, res)]
                /\ calls' = [calls EXCEPT
                       ![a] = setattro_calls(@, members, name, value, res)]
                /\ hist' = [NoHist EXCEPT
                       !.op = IF value = 0 THEN "del" ELSE "set",
                       !.self = a, !.name = name, !.val = value,
                       !.old = IF IsMember(members, name)
                               THEN m_values[a][index(members, name) + 1] ELSE 0,
                       !.vcall = setattro_validates(members, name, value),
                       !.ret = IF exc = "" THEN "0" ELSE "-1",
                       !.exc = exc]
    /\ UNCHANGED <<registry, ob_type, m_members, m_cbsets, stack, order>>

(* Atom_getattro( self, name ): dflt is what member->defaultValue returns  *)
(* when it is called, 0 for a failure.  A name that is no member goes to   *)
(* PyObject_GenericGetAttr.                                                *)
(* For comparison: a read that computes the default of a member whether or *)
(* not the slot holds a value.                                             *)
getattro_defaults_member(values, members, name) == IsMember(members, name)

getattro_defaults(values, members, name) ==
    IsMember(members, name) /\ values[index(members, name) + 1] = 0

(* For comparison: a read that hands the default out and keeps no copy.    *)
getattro_no_store(values, members, name, dflt) == values

getattro(values, members, name, dflt) ==
    IF getattro_defaults(values, members, name) /\ dflt # 0
    THEN [values EXCEPT ![index(members, name) + 1] = dflt]
    ELSE values

getattro_result(values, members, name, dflt) ==
    IF ~IsMember(members, name) THEN 0
    ELSE IF values[index(members, name) + 1] # 0 THEN values[index(members, name) + 1]
    ELSE dflt

getattro_calls(cs, values, members, name, dflt) ==
    IF getattro_defaults(values, members, name)
    THEN [cs EXCEPT ![index(members, name) + 1].n = @ + 1,
                    ![index(members, name) + 1].ok = IF dflt = 0 THEN @ ELSE @ + 1]
    ELSE cs

Atom_getattro(a, name, dflt) ==
    /\ IF m_members[a].null
       THEN /\ hist' = [NoHist EXCEPT !.op = "crash", !.self = a, !.name = name]
            /\ UNCHANGED <<m_values, calls>>
       ELSE LET members == m_members[a].dict
                member == IsMember(members, name)
                defaults == getattro_defaults(m_values[a], members, name)
                result == getattro_result(m_values[a], members, name, dflt)
            IN  /\ defaults => calls[a][index(members, name) + 1].n < MaxDefaultCalls
                /\ m_values' = [m_values EXCEPT
                       ![a] = getattro(@, members, name, dflt)]
                /\ calls' = [calls EXCEPT
                       ![a] = getattro_calls(@, m_values[a], members, name, dflt)]
                /\ hist' = [NoHist EXCEPT
                       !.op = "get", !.self = a, !.name = name,
                       !.old = IF member THEN m_values[a][index(members, name) + 1]
                               ELSE 0,
                       !.dcall = defaults,
                       !.val = result,
                       !.ret = IF ~member THEN "generic"
                               ELSE IF result = 0 THEN "NULL" ELSE "value",
                       !.exc = IF member /\ result = 0 THEN "DefaultError" ELSE ""]
    /\ UNCHANGED <<registry, ob_type, m_members, m_cbsets, stack, order>>

-----------------------------------------------------------------------------
(* Construction: tp_new then tp_init. *)

CSNull == [alloc |-> FALSE, vec |-> << >>]

(* Atom_init: kwargs is a sequence of <<name, value, res>>, each set with  *)
(* PyObject_SetAttr in turn; the first failure ends it.                    *)
RECURSIVE init_values(_, _, _)
init_values(values, members, kwargs) ==
    IF kwargs = << >> THEN values
    ELSE IF setattro_fails(members, kwargs[1][1], kwargs[1][2], kwargs[1][3])
    THEN values
    ELSE init_values(setattro(values, members, kwargs[1][1], kwargs[1][2], kwargs[1][3]),
                     members, Tail(kwargs))

RECURSIVE init_calls(_, _, _)
init_calls(cs, members, kwargs) ==
    IF kwargs = << >> THEN cs
    ELSE IF setattro_fails(members, kwargs[1][1], kwargs[1][2], kwargs[1][3])
    THEN cs
    ELSE init_calls(setattro_calls(cs, members, kwargs[1][1], kwargs[1][2], kwargs[1][3]),
                    members, Tail(kwargs))

RECURSIVE init_exc(_, _)
init_exc(members, kwargs) ==
    IF kwargs = << >> THEN ""
    ELSE IF setattro_fails(members, kwargs[1][1], kwargs[1][2], kwargs[1][3])
    THEN setattro_exc(members, kwargs[1][1], kwargs[1][2], kwargs[1][3])
    ELSE init_exc(members, Tail(kwargs))

Atom_init(members, nargs, kwargs) ==
    IF nargs > 0 THEN "TypeError" ELSE init_exc(members, kwargs)

(* For comparison: an allocation of one slot whatever the mapping. *)
new_size_one(members) == 1

(* The Py_SIZE of the object Atom_new allocates. *)
new_size(members) == Len(members)

(* type( *args, **kwargs ): Atom_new, then Atom_init on the new object; an *)
(* object whose Atom_init fails is released at once.                       *)
Atom_new(type, nargs, kwargs) ==
    /\ Len(m_members) < MaxAtoms
    /\ IF ~LookupMembers(type).set
       THEN /\ hist' = [NoHist EXCEPT !.op = "new", !.ret = "NULL", !.exc = "TypeError"]
            /\ UNCHANGED <<ob_type, m_members, m_values, m_cbsets, order, calls>>
       ELSE LET members == LookupMembers(type).members
                size == new_size(members)
                exc == Atom_init(members, nargs, kwargs)
            IN  IF exc # ""
                THEN /\ hist' = [NoHist EXCEPT !.op = "new", !.ret = "NULL", !.exc = exc]
                     /\ UNCHANGED <<ob_type, m_members, m_values, m_cbsets, order, calls>>
                ELSE /\ ob_type' = Append(ob_type, type)
                     /\ m_members' = Append(m_members, [null |-> FALSE, dict |-> members])
                     /\ m_values' = Append(m_values,
                            init_values([i \in 1..size |-> 0], members, kwargs))
                     /\ m_cbsets' = Append(m_cbsets, CSNull)
                     /\ order' = Append(order, [s \in Signals |-> << >>])
                     /\ calls' = Append(calls,
                            init_calls([i \in 1..size |-> NoCalls], members, kwargs))
                     /\ hist' = [NoHist EXCEPT !.op = "new", !.self = Len(m_members) + 1,
                                               !.ret = "object"]
    /\ UNCHANGED <<registry, stack>>

-----------------------------------------------------------------------------
(* CallbackSet (declared outside atom.cpp): the callbacks of one signal in *)
(* the order they were added.  add appends, remove takes out the first     *)
(* occurrence, and dispatch calls the callbacks of a copy taken when it    *)
(* starts, in order, until one fails.                                      *)

CallbackSet(callback) == <<callback>>

CallbackSet_add(set, callback) == Append(set, callback)

RECURSIVE CallbackSet_remove(_, _)
CallbackSet_remove(set, callback) ==
    IF set = << >> THEN << >>
    ELSE IF Head(set) = callback THEN Tail(set)
    ELSE <<Head(set)>> \o CallbackSet_remove(Tail(set), callback)

(* The copy dispatch works on. *)
dispatch_snapshot(set) == set

(* After the callback at frame.pos returned: the callback dispatch calls   *)
(* next, 0 when dispatch returns.                                          *)
dispatch_next(frame, ok) ==
    IF ok /\ frame.pos < Len(frame.snap) THEN frame.snap[frame.pos + 1] ELSE 0

-----------------------------------------------------------------------------
(* The sorted vector of (signal, CallbackSet) pairs. *)

CSPair(sig, set) == [first |-> sig, second |-> set]

(* std::lower_bound with CmpLess: a binary search from `first` over `len`  *)
(* elements; the result is an index, Len( vec ) + 1 is end().              *)
RECURSIVE lower_bound(_, _, _, _)
lower_bound(vec, sig, first, len) ==
    IF len <= 0 THEN first
    ELSE LET half == len \div 2
             middle == first + half
         IN  IF vec[middle].first < sig
             THEN lower_bound(vec, sig, middle + 1, len - half - 1)
             ELSE lower_bound(vec, sig, first, half)

lowerBound(vec, sig) == lower_bound(vec, sig, 1, Len(vec))

End(vec) == Len(vec) + 1

binaryFind(vec, sig) ==
    LET it == lowerBound(vec, sig)
    IN  IF it # End(vec) /\ vec[it].first = sig THEN it ELSE End(vec)

(* vector::insert before position it, vector::erase at position it. *)
(* For comparison: an insert that adds at the end, wherever it points. *)
insert_end(vec, it, pair) == vec \o <<pair>>

insert(vec, it, pair) ==
    SubSeq(vec, 1, it - 1) \o <<pair>> \o SubSeq(vec, it, Len(vec))

erase(vec, it) ==
    SubSeq(vec, 1, it - 1) \o SubSeq(vec, it + 1, Len(vec))

-----------------------------------------------------------------------------
(* Atom::connect, Atom::disconnect (three overloads) and Atom::emit, each  *)
(* as the m_cbsets it leaves.                                              *)

(* For comparison: a connect that inserts a new pair every time, whether   *)
(* or not the signal has an entry.                                         *)
connect_always_insert(cbsets, sig, callback) ==
    LET vec == cbsets.vec
        it == lowerBound(vec, sig)
    IN  [alloc |-> TRUE, vec |-> insert(vec, it, CSPair(sig, CallbackSet(callback)))]

(* For comparison: a connect that puts the pair of a new signal at the end *)
(* of the vector.                                                          *)
connect_push_back(cbsets, sig, callback) ==
    LET vec == cbsets.vec
        it == lowerBound(vec, sig)
    IN  IF it = End(vec) \/ vec[it].first # sig
        THEN [alloc |-> TRUE,
              vec |-> insert(vec, End(vec), CSPair(sig, CallbackSet(callback)))]
        ELSE [alloc |-> TRUE,
              vec |-> [vec EXCEPT ![it].second = CallbackSet_add(@, callback)]]

(* For comparison: a connect that leaves the set as it is when it holds    *)
(* the callback already.                                                   *)
connect_once(cbsets, sig, callback) ==
    LET vec == cbsets.vec
        it == lowerBound(vec, sig)
    IN  IF it = End(vec) \/ vec[it].first # sig
        THEN [alloc |-> TRUE, vec |-> insert(vec, it, CSPair(sig, CallbackSet(callback)))]
        ELSE IF \E i \in 1..Len(vec[it].second) : vec[it].second[i] = callback
        THEN cbsets
        ELSE [alloc |-> TRUE,
              vec |-> [vec EXCEPT ![it].second = CallbackSet_add(@, callback)]]

connect(cbsets, sig, callback) ==
    LET vec == cbsets.vec
        it == lowerBound(vec, sig)
    IN  IF it = End(vec) \/ vec[it].first # sig
        THEN [alloc |-> TRUE, vec |-> insert(vec, it, CSPair(sig, CallbackSet(callback)))]
        ELSE [alloc |-> TRUE,
              vec |-> [vec EXCEPT ![it].second = CallbackSet_add(@, callback)]]

(* For comparison: a disconnect() that drops the first entry only. *)
disconnect_first(cbsets) ==
    IF cbsets.alloc /\ cbsets.vec # << >>
    THEN [cbsets EXCEPT !.vec = erase(cbsets.vec, 1)]
    ELSE cbsets

disconnect_all(cbsets) ==
    IF cbsets.alloc THEN [cbsets EXCEPT !.vec = << >>] ELSE cbsets

(* For comparison: a disconnect( sig ) that empties the entry's set and    *)
(* leaves the entry in the vector.                                         *)
disconnect_sig_keep(cbsets, sig) ==
    IF cbsets.alloc
    THEN LET it == binaryFind(cbsets.vec, sig)
         IN  IF it # End(cbsets.vec)
             THEN [cbsets EXCEPT !.vec[it].second = << >>]
             ELSE cbsets
    ELSE cbsets

disconnect_sig(cbsets, sig) ==
    IF cbsets.alloc
    THEN LET it == binaryFind(cbsets.vec, sig)
         IN  IF it # End(cbsets.vec)
             THEN [cbsets EXCEPT !.vec = erase(cbsets.vec, it)]
             ELSE cbsets
    ELSE cbsets

(* For comparison: a disconnect( sig, callback ) that erases the entry. *)
disconnect_cb_erase(cbsets, sig, callback) ==
    IF cbsets.alloc
    THEN LET it == binaryFind(cbsets.vec, sig)
         IN  IF it # End(cbsets.vec)
             THEN [cbsets EXCEPT !.vec = erase(cbsets.vec, it)]
             ELSE cbsets
    ELSE cbsets

(* For comparison: a disconnect( sig, callback ) that looks at the first   *)
(* entry, whatever its signal.                                             *)
disconnect_cb_front(cbsets, sig, callback) ==
    IF cbsets.alloc /\ cbsets.vec # << >>
    THEN [cbsets EXCEPT !.vec[1].second = CallbackSet_remove(@, callback)]
    ELSE cbsets

(* For comparison: a disconnect( sig, callback ) that erases the entry when *)
(* it has taken the last callback out of its set.                          *)
disconnect_cb_prune(cbsets, sig, callback) ==
    IF cbsets.alloc
    THEN LET it == binaryFind(cbsets.vec, sig)
         IN  IF it # End(cbsets.vec)
             THEN IF CallbackSet_remove(cbsets.vec[it].second, callback) = << >>
                  THEN [cbsets EXCEPT !.vec = erase(cbsets.vec, it)]
                  ELSE [cbsets EXCEPT !.vec[it].second = CallbackSet_remove(@, callback)]
             ELSE cbsets
    ELSE cbsets

disconnect_cb(cbsets, sig, callback) ==
    IF cbsets.alloc
    THEN LET it == binaryFind(cbsets.vec, sig)
         IN  IF it # End(cbsets.vec)
             THEN [cbsets EXCEPT !.vec[it].second = CallbackSet_remove(@, callback)]
             ELSE cbsets
    ELSE cbsets

(* Atom::emit: the m_cbsets it leaves and the CallbackSets it calls        *)
(* dispatch on (one or none).                                              *)
(* For comparison: an emit that makes the vector when there is none, as   *)
(* connect does.                                                           *)
emit_creates(cbsets, sig) ==
    IF cbsets.alloc
    THEN LET it == binaryFind(cbsets.vec, sig)
         IN  IF it # End(cbsets.vec)
             THEN [cbsets |-> cbsets, sets |-> <<cbsets.vec[it].second>>]
             ELSE [cbsets |-> cbsets, sets |-> << >>]
    ELSE [cbsets |-> [cbsets EXCEPT !.alloc = TRUE], sets |-> << >>]

emit(cbsets, sig) ==
    IF cbsets.alloc
    THEN LET it == binaryFind(cbsets.vec, sig)
         IN  IF it # End(cbsets.vec)
             THEN [cbsets |-> cbsets, sets |-> <<cbsets.vec[it].second>>]
             ELSE [cbsets |-> cbsets, sets |-> << >>]
    ELSE [cbsets |-> cbsets, sets |-> << >>]

(* What Atom_emit returns once Atom::emit is back; failed says whether a   *)
(* callback failed in dispatch.                                            *)
emit_result(failed) == "None"

-----------------------------------------------------------------------------
(* History kept beside the connection table. *)

(* The callbacks the table holds for a signal, found by looking at every   *)
(* entry: << >> when no entry has any.                                     *)
RECURSIVE Registered(_, _)
Registered(vec, sig) ==
    IF vec = << >> THEN << >>
    ELSE (IF Head(vec).first = sig THEN Head(vec).second ELSE << >>)
         \o Registered(Tail(vec), sig)

HasEntry(vec, sig) == \E i \in 1..Len(vec) : vec[i].first = sig

RECURSIVE Regs(_)
Regs(vec) == IF vec = << >> THEN 0 ELSE Len(Head(vec).second) + Regs(Tail(vec))

RECURSIVE TotalRegs(_)
TotalRegs(tables) ==
    IF tables = << >> THEN 0 ELSE Regs(Head(tables).vec) + TotalRegs(Tail(tables))

(* How many registrations of the callback a sequence of them holds. *)
Count(regs, callback) == Cardinality({i \in 1..Len(regs) : regs[i] = callback})

(* The registrations a signal is left with when one registration of the   *)
(* callback is withdrawn: the earliest one goes, the others keep their     *)
(* order.                                                                  *)
Without(regs, callback) ==
    IF \E i \in 1..Len(regs) : regs[i] = callback
    THEN LET k == CHOOSE i \in 1..Len(regs) :
                      /\ regs[i] = callback
                      /\ \A j \in 1..(i - 1) : regs[j] # callback
         IN  [i \in 1..(Len(regs) - 1) |-> IF i < k THEN regs[i] ELSE regs[i + 1]]
    ELSE regs

-----------------------------------------------------------------------------
(* The methods connect, disconnect and emit, and tp_clear.  A call made    *)
(* while stack is not empty is made by the callback that is running.       *)

TypeCheck(sig) == sig \in Signals

PyCallable_Check(callback) == callback \in Callbacks

Called(op, a, sig, callback) ==
    [NoHist EXCEPT !.op = op, !.self = a, !.sig = sig, !.cb = callback]

(* For comparison: an argument error that first discards the connections.  *)
TypeError_discard(op, a, sig, callback) ==
    /\ hist' = [Called(op, a, 0, 0) EXCEPT !.ret = "NULL", !.exc = "TypeError"]
    /\ m_cbsets' = [m_cbsets EXCEPT ![a] = [@ EXCEPT !.vec = << >>]]
    /\ UNCHANGED <<stack, order>>

TypeError(op, a, sig, callback) ==
    /\ hist' = [Called(op, a, 0, 0) EXCEPT !.ret = "NULL", !.exc = "TypeError"]
    /\ UNCHANGED <<m_cbsets, stack, order>>

(* For comparison: a connect on a table that the instances share. *)
Atom_connect_shared(a, sig, callback) ==
    /\ IF ~TypeCheck(sig) \/ ~PyCallable_Check(callback)
       THEN TypeError("connect", a, sig, callback)
       ELSE /\ m_cbsets' = [b \in DOMAIN m_cbsets |-> connect(m_cbsets[b], sig, callback)]
            /\ order' = [b \in DOMAIN order |->
                            [order[b] EXCEPT ![sig] = Append(@, callback)]]
            /\ stack' = stack
            /\ hist' = [Called("connect", a, sig, callback) EXCEPT !.ret = "None"]
    /\ UNCHANGED <<registry, ob_type, m_members, m_values, calls>>

Atom_connect(a, sig, callback) ==
    /\ IF ~TypeCheck(sig) \/ ~PyCallable_Check(callback)
       THEN TypeError("connect", a, sig, callback)
       ELSE /\ m_cbsets' = [m_cbsets EXCEPT ![a] = connect(@, sig, callback)]
            /\ order' = [order EXCEPT ![a][sig] = Append(@, callback)]
            /\ stack' = stack
            /\ hist' = [Called("connect", a, sig, callback) EXCEPT !.ret = "None"]
    /\ UNCHANGED <<registry, ob_type, m_members, m_values, calls>>

(* sig = 0 and callback = 0 are the arguments left out. *)
Atom_disconnect(a, sig, callback) ==
    /\ IF (sig # 0 /\ ~TypeCheck(sig)) \/ (callback # 0 /\ ~PyCallable_Check(callback))
       THEN TypeError("disconnect", a, sig, callback)
       ELSE /\ m_cbsets' = [m_cbsets EXCEPT ![a] =
                   IF sig = 0 THEN disconnect_all(@)
                   ELSE IF callback = 0 THEN disconnect_sig(@, sig)
                   ELSE disconnect_cb(@, sig, callback)]
            /\ order' = [order EXCEPT ![a] =
                   IF sig = 0 THEN [s \in Signals |-> << >>]
                   ELSE IF callback = 0 THEN [@ EXCEPT ![sig] = << >>]
                   ELSE [@ EXCEPT ![sig] = Without(@, callback)]]
            /\ stack' = stack
            /\ hist' = [Called("disconnect", a, sig, callback) EXCEPT
                           !.ret = "None",
                           !.old = IF sig = 0 THEN Len(m_cbsets[a].vec) ELSE 0]
    /\ UNCHANGED <<registry, ob_type, m_members, m_values, calls>>

(* sig = 0 is emit() with no argument.  When dispatch has a callback to    *)
(* call, the call stays on the stack with that callback running; otherwise *)
(* Atom_emit returns in the same step.                                     *)
Atom_emit(a, sig) ==
    /\ IF sig = 0 \/ ~TypeCheck(sig)
       THEN TypeError("emit", a, sig, 0)
       ELSE LET r == emit(m_cbsets[a], sig)
                snap == IF r.sets = << >> THEN << >> ELSE dispatch_snapshot(r.sets[1])
            IN  /\ m_cbsets' = [m_cbsets EXCEPT ![a] = r.cbsets]
                /\ order' = order
                /\ IF snap = << >>
                   THEN /\ stack' = stack
                        /\ hist' = [Called("emit", a, sig, 0) EXCEPT
                                       !.ret = emit_result(FALSE)]
                   ELSE /\ stack' = Append(stack,
                               [self |-> a, sig |-> sig, snap |-> snap, pos |-> 1,
                                inv |-> <<snap[1]>>])
                        /\ hist' = Called("emit", a, sig, snap[1])
    /\ UNCHANGED <<registry, ob_type, m_members, m_values, calls>>

(* The running callback returns, ok or with an error: dispatch calls the   *)
(* next callback or returns, and then Atom::emit and Atom_emit return.     *)
Return(ok) ==
    /\ stack # << >>
    /\ LET top == stack[Len(stack)]
           next == dispatch_next(top, ok)
       IN  IF next # 0
           THEN /\ stack' = [stack EXCEPT ![Len(stack)] =
                       [top EXCEPT !.pos = @ + 1, !.inv = Append(@, next)]]
                /\ hist' = Called("next", top.self, top.sig, next)
           ELSE /\ stack' = SubSeq(stack, 1, Len(stack) - 1)
                /\ hist' = [Called("emit_return", top.self, 0, 0) EXCEPT
                               !.ret = emit_result(~ok),
                               !.exc = IF ok THEN "" ELSE "CallbackError"]
    /\ UNCHANGED <<registry, ob_type, m_members, m_values, m_cbsets, order, calls>>

(* Atom_clear: the vector swapped with an empty one, every slot and the    *)
(* member mapping cleared.  It returns 0; old records a call on an         *)
(* instance whose member mapping was cleared before.                       *)
(* For comparison: a clear that empties the set of every entry and leaves  *)
(* the entries, with their signals, in the vector.                         *)
clear_cbsets_sets(cbsets) ==
    [cbsets EXCEPT !.vec = [i \in 1..Len(cbsets.vec) |->
                               [cbsets.vec[i] EXCEPT !.second = << >>]]]

clear_cbsets(cbsets) ==
    IF cbsets.alloc THEN [cbsets EXCEPT !.vec = << >>] ELSE cbsets

Atom_clear(a) ==
    /\ m_cbsets' = [m_cbsets EXCEPT ![a] = clear_cbsets(@)]
    /\ m_values' = [m_values EXCEPT ![a] = [i \in DOMAIN @ |-> 0]]
    /\ m_members' = [m_members EXCEPT ![a] = NullMembers]
    /\ order' = [order EXCEPT ![a] = [s \in Signals |-> << >>]]
    /\ stack' = stack
    /\ hist' = [Called("clear", a, 0, 0) EXCEPT
                   !.ret = "0",
                   !.old = IF m_members[a].null THEN 1 ELSE 0]
    /\ UNCHANGED <<registry, ob_type, calls>>

-----------------------------------------------------------------------------
(* The specifications. *)

(* After Atom::Ready(): an empty registry and no instance. *)
Init ==
    /\ registry = [t \in Types |-> [set |-> FALSE, members |-> << >>]]
    /\ ob_type = << >>
    /\ m_members = << >>
    /\ m_values = << >>
    /\ m_cbsets = << >>
    /\ stack = << >>
    /\ order = << >>
    /\ calls = << >>
    /\ hist = NoHist

Kwargs ==
    {<< >>} \cup {<< <<n, v, r>> >> : n \in Names, v \in Values, r \in 0..NumValues}

(* Types register their members and instances are made. *)
NextNew ==
    \/ \E t \in Types, m \in Mappings : RegisterMembers(t, m)
    \/ \E t \in Types, n \in 0..1, kw \in Kwargs : Atom_new(t, n, kw)

SpecNew == Init /\ [][NextNew]_vars

(* One instance of a type registered with the mapping members, as Atom_new *)
(* leaves it.                                                              *)
InitAtom(members) ==
    /\ registry = [t \in Types |-> [set |-> TRUE, members |-> members]]
    /\ ob_type = << 1 >>
    /\ m_members = << [null |-> FALSE, dict |-> members] >>
    /\ m_values = << [i \in 1..new_size(members) |-> 0] >>
    /\ m_cbsets = << CSNull >>
    /\ stack = << >>
    /\ order = << [s \in Signals |-> << >>] >>
    /\ calls = << [i \in 1..new_size(members) |-> NoCalls] >>
    /\ hist = [NoHist EXCEPT !.op = "new", !.self = 1, !.ret = "object"]

(* What the call made on the way can return: defaultValue when a get      *)
(* calls it (0 otherwise: there is no call), and for a set validate, which *)
(* may hand back another value than it was given, or                       *)
(* PyObject_GenericSetAttr, which succeeds or fails.                       *)
DefaultResults(a, name) ==
    IF getattro_defaults(m_values[a], m_members[a].dict, name)
    THEN 0..NumValues ELSE {0}

SetResults(a, name) ==
    IF IsMember(m_members[a].dict, name) THEN 0..NumValues ELSE {0, 1}

(* Attribute access: the attributes of an instance are read, set and       *)
(* deleted.                                                                *)
InitSlots == \E m \in Mappings : InitAtom(m)

NextSlots ==
    \/ \E a \in Atoms, n \in Names :
          \E d \in DefaultResults(a, n) : Atom_getattro(a, n, d)
    \/ \E a \in Atoms, n \in Names, v \in Values :
          \E r \in SetResults(a, n) : Atom_setattro(a, n, v, r)
    \/ \E a \in Atoms, n \in Names :
          \E r \in SetResults(a, n) \cap {0, 1} : Atom_setattro(a, n, 0, r)

SpecSlots == InitSlots /\ [][NextSlots]_vars

InitSignals == InitAtom(<<"x">>)

(* Signals, every call made from outside any callback: a callback only     *)
(* returns, ok or with an error.                                           *)
NextSignals ==
    \/ \E a \in Atoms, s \in Signals, c \in Callbacks :
          /\ stack = << >>
          /\ TotalRegs(m_cbsets) < MaxRegs
          /\ Atom_connect(a, s, c)
    \/ \E a \in Atoms, s \in {0} \cup Signals, c \in {0} \cup Callbacks :
          /\ stack = << >>
          /\ s = 0 => c = 0
          /\ Atom_disconnect(a, s, c)
    \/ \E a \in Atoms, s \in Signals :
          /\ stack = << >>
          /\ Atom_emit(a, s)
    \/ \E ok \in BOOLEAN : Return(ok)

SpecSignals == InitSignals /\ [][NextSignals]_vars

(* Signals with callbacks that call back into the instance while dispatch  *)
(* is running them: connect and disconnect, besides the calls made from    *)
(* outside.  A callback does not emit in turn here, so at most one         *)
(* dispatch is in progress.                                                *)
ReSignals == 1..NumReSignals
ReCallbacks == {1, 2}

NextReentrant ==
    \/ \E a \in Atoms, s \in ReSignals, c \in ReCallbacks :
          /\ TotalRegs(m_cbsets) < MaxReRegs
          /\ Atom_connect(a, s, c)
    \/ \E a \in Atoms, s \in {0} \cup ReSignals, c \in {0} \cup ReCallbacks :
          /\ s = 0 => c = 0
          /\ Atom_disconnect(a, s, c)
    \/ \E a \in Atoms, s \in ReSignals :
          /\ stack = << >>
          /\ Atom_emit(a, s)
    \/ \E ok \in BOOLEAN : Return(ok)

SpecReentrant == InitSignals /\ [][NextReentrant]_vars

(* The calls made from outside any callback, with any argument: besides    *)
(* signals and callables, an object that is no Signal, an object that is   *)
(* not callable, and for disconnect and emit the argument left out.        *)
AnySignal == ReSignals \cup {NotSignal}
AnyCallback == ReCallbacks \cup {NotCallable}

NextArgs ==
    \/ \E a \in Atoms, s \in AnySignal, c \in AnyCallback :
          /\ stack = << >>
          /\ TotalRegs(m_cbsets) < MaxReRegs
          /\ Atom_connect(a, s, c)
    \/ \E a \in Atoms, s \in {0} \cup AnySignal, c \in {0} \cup AnyCallback :
          /\ stack = << >>
          /\ s = 0 => c = 0
          /\ Atom_disconnect(a, s, c)
    \/ \E a \in Atoms, s \in {0} \cup AnySignal :
          /\ stack = << >>
          /\ Atom_emit(a, s)
    \/ \E ok \in BOOLEAN : Return(ok)

SpecArgs == InitSignals /\ [][NextArgs]_vars

(* Signals with callbacks that tear the connections down while dispatch is *)
(* running them: disconnect(), disconnect( sig ) and tp_clear.             *)
NextTeardown ==
    \/ \E a \in Atoms, s \in ReSignals, c \in ReCallbacks :
          /\ TotalRegs(m_cbsets) < MaxReRegs
          /\ Atom_connect(a, s, c)
    \/ \E a \in Atoms, s \in {0} \cup ReSignals :
          /\ stack # << >>
          /\ Atom_disconnect(a, s, 0)
    \/ \E a \in Atoms, s \in ReSignals :
          /\ stack = << >>
          /\ Atom_emit(a, s)
    \/ \E a \in Atoms :
          /\ stack # << >>
          /\ ~m_members[a].null
          /\ Atom_clear(a)
    \/ \E ok \in BOOLEAN : Return(ok)

SpecTeardown == InitSignals /\ [][NextTeardown]_vars

(* The collector clears an instance whose slots and signals have been      *)
(* used (one callback is connected, to any signal), at any moment, a       *)
(* dispatch in progress included, and any number of times; nothing else    *)
(* uses an instance once it is cleared.                                    *)
InitClear == \E m \in Mappings : InitAtom(m)

NextClear ==
    \/ \E a \in Atoms, n \in Names :
          /\ ~m_members[a].null
          /\ \E d \in DefaultResults(a, n) \cap {0, 1} : Atom_getattro(a, n, d)
    \/ \E a \in Atoms, n \in Names :
          /\ ~m_members[a].null
          /\ \E r \in SetResults(a, n) \cap {0, 1} : Atom_setattro(a, n, 1, r)
    \/ \E a \in Atoms, s \in ReSignals :
          /\ ~m_members[a].null
          /\ TotalRegs(m_cbsets) < MaxReRegs
          /\ Atom_connect(a, s, 1)
    \/ \E a \in Atoms, s \in ReSignals :
          /\ ~m_members[a].null
          /\ stack = << >>
          /\ Atom_emit(a, s)
    \/ \E a \in Atoms : Atom_clear(a)
    \/ \E ok \in BOOLEAN : Return(ok)

SpecClear == InitClear /\ [][NextClear]_vars

(* The life of instances: a type registers its members, and registers     *)
(* them again, instances of it are made, with no keyword, with one that is *)
(* set and with one whose set fails, and the attributes and signals of the *)
(* first instance are used meanwhile.  Both parts are kept small: the      *)
(* attribute x with one value, and one signal and one callback, connected  *)
(* once at a time, with calls made from outside any callback.              *)
LifeType == 1
LifeAtoms == Atoms \cap {1}
LifeNames == {"x"}
LifeKwargs == {<< >>, << <<"y", 1, 1>> >>, << <<"x", 1, 0>> >>}

NextLife ==
    \/ \E m \in Mappings : RegisterMembers(LifeType, m)
    \/ \E n \in 0..1, kw \in LifeKwargs : Atom_new(LifeType, n, kw)
    \/ \E a \in LifeAtoms, n \in LifeNames :
          \E d \in DefaultResults(a, n) \cap {0, 1} : Atom_getattro(a, n, d)
    \/ \E a \in LifeAtoms, n \in LifeNames :
          \E r \in SetResults(a, n) \cap {0, 1} : Atom_setattro(a, n, 1, r)
    \/ \E a \in LifeAtoms, n \in LifeNames : Atom_setattro(a, n, 0, 1)
    \/ \E a \in LifeAtoms :
          /\ stack = << >>
          /\ order[a][1] = << >>
          /\ Atom_connect(a, 1, 1)
    \/ \E a \in LifeAtoms :
          /\ stack = << >>
          /\ Atom_disconnect(a, 0, 0)
    \/ \E a \in LifeAtoms :
          /\ stack = << >>
          /\ Atom_emit(a, 1)
    \/ \E ok \in BOOLEAN : Return(ok)

SpecLife == Init /\ [][NextLife]_vars

(* Two instances of one type with the members x and y, as two calls of     *)
(* Atom_new with the keyword y leave them, and the attributes and signals  *)
(* of both in use.  Both parts are kept small: the attribute x with one    *)
(* value, and one signal and one callback, connected once at a time, with  *)
(* calls made from outside any callback.                                   *)
TwoMembers == <<"x", "y">>
TwoKwargs == << <<"y", 1, 1>> >>

InitTwo ==
    /\ registry = [t \in Types |-> [set |-> TRUE, members |-> TwoMembers]]
    /\ ob_type = << 1, 1 >>
    /\ m_members = [a \in 1..2 |-> [null |-> FALSE, dict |-> TwoMembers]]
    /\ m_values = [a \in 1..2 |->
           init_values([i \in 1..new_size(TwoMembers) |-> 0], TwoMembers, TwoKwargs)]
    /\ m_cbsets = [a \in 1..2 |-> CSNull]
    /\ stack = << >>
    /\ order = [a \in 1..2 |-> [s \in Signals |-> << >>]]
    /\ calls = [a \in 1..2 |->
           init_calls([i \in 1..new_size(TwoMembers) |-> NoCalls], TwoMembers, TwoKwargs)]
    /\ hist = [NoHist EXCEPT !.op = "new", !.self = 2, !.ret = "object"]

NextTwo ==
    \/ \E a \in Atoms, n \in LifeNames :
          \E d \in DefaultResults(a, n) \cap {0, 1} : Atom_getattro(a, n, d)
    \/ \E a \in Atoms, n \in LifeNames :
          \E r \in SetResults(a, n) \cap {0, 1} : Atom_setattro(a, n, 1, r)
    \/ \E a \in Atoms, n \in LifeNames : Atom_setattro(a, n, 0, 1)
    \/ \E a \in Atoms :
          /\ stack = << >>
          /\ order[a][1] = << >>
          /\ Atom_connect(a, 1, 1)
    \/ \E a \in Atoms :
          /\ stack = << >>
          /\ Atom_disconnect(a, 0, 0)
    \/ \E a \in Atoms :
          /\ stack = << >>
          /\ Atom_emit(a, 1)
    \/ \E ok \in BOOLEAN : Return(ok)

SpecTwo == InitTwo /\ [][NextTwo]_vars

-----------------------------------------------------------------------------
(* Properties of attribute access, under SpecSlots. *)

(* C1: when set( instance, name, v ) on a registered member has validate   *)
(* fail, set reports the error (returns -1 with the error set) and the     *)
(* slot is what it was before the call, a value or unset; and a get of the *)
(* same name made right after it returns that prior value, or what         *)
(* defaultValue gives when the slot was unset.                             *)
C1_ValidateBeforeWrite ==
    /\ [](\A a \in Atoms :
            (hist.op = "set" /\ hist.self = a /\ hist.exc = "ValidationError") =>
                /\ hist.vcall
                /\ hist.ret = "-1"
                /\ IsMember(m_members[a].dict, hist.name)
                /\ m_values[a][index(m_members[a].dict, hist.name) + 1] = hist.old)
    /\ [][\A a \in Atoms, d \in 0..NumValues :
            (/\ hist.op = "set" /\ hist.self = a /\ hist.exc = "ValidationError"
             /\ Atom_getattro(a, hist.name, d))
            => /\ hist'.dcall = (hist.old = 0)
               /\ hist'.val = IF hist.old # 0 THEN hist.old ELSE d]_vars

(* A set whose validate failed on a slot that held a value, which it still *)
(* holds.                                                                  *)
C1_Witness ==
    /\ hist.op = "set" /\ hist.exc = "ValidationError"
    /\ hist.old # 0 /\ hist.val # hist.old
    /\ m_values[hist.self][index(m_members[hist.self].dict, hist.name) + 1] = hist.old

(* C6 as stated: for a field that is never set, all the gets together call *)
(* defaultValue at most once.                                              *)
C6_DefaultAtMostOnce ==
    \A a \in Atoms : \A i \in DOMAIN calls[a] :
        ~calls[a][i].set => calls[a][i].n <= 1

(* C6, amended: for a field that is never set or deleted, defaultValue is  *)
(* called by a get exactly when the slot is unset and succeeds at most     *)
(* once; a default that was computed is stored in the slot and every later *)
(* get returns the stored value; a computation that failed stores nothing  *)
(* and the get returns the failure.                                        *)
C6_DefaultOnce ==
    \A a \in Atoms : \A i \in DOMAIN calls[a] :
        ~calls[a][i].set =>
            /\ calls[a][i].ok <= 1
            /\ calls[a][i].ok <= calls[a][i].n
            /\ (calls[a][i].ok = 1) = (m_values[a][i] # 0)
            /\ (/\ hist.op = "get" /\ hist.self = a
                 /\ index(m_members[a].dict, hist.name) + 1 = i)
               => /\ hist.dcall = (hist.old = 0)
                  /\ hist.old # 0 => hist.val = hist.old
                  /\ m_values[a][i] = hist.val
                  /\ (hist.val = 0) = (hist.exc # "")

(* A get of a field that was never set, answered from the slot, where the  *)
(* one default computed earlier is stored.                                 *)
C6_Witness ==
    /\ hist.op = "get" /\ ~hist.dcall /\ hist.val # 0
    /\ IsMember(m_members[hist.self].dict, hist.name)
    /\ LET c == calls[hist.self][index(m_members[hist.self].dict, hist.name) + 1]
       IN  ~c.set /\ c.ok = 1 /\ c.n = 2

-----------------------------------------------------------------------------
(* Properties of connect, disconnect and emit called from outside any      *)
(* callback, under SpecSignals.                                            *)

(* C5: when a callback fails during emit( sig ), dispatch calls no later   *)
(* callback of the set and emit does not return a success result: it       *)
(* returns null with the error set.                                        *)
C5_FailureReported ==
    [][(stack # << >> /\ Return(FALSE)) =>
          /\ Len(stack') = Len(stack) - 1
          /\ hist'.op = "emit_return"
          /\ hist'.exc # ""
          /\ hist'.ret = "NULL"]_vars

(* C7: an emit of a signal invokes the callbacks connected to that signal  *)
(* of that instance, each registration once, in the order the connect      *)
(* calls were made, whatever other signals were connected before, between  *)
(* or after them: the callbacks dispatch has invoked so far are always the *)
(* first ones of that order, an emit that invokes none has none            *)
(* registered, and when the last callback returns without failing all of   *)
(* them were invoked.                                                      *)
C7_RegistrationOrder ==
    /\ [](\A k \in 1..Len(stack) :
            /\ stack[k].snap = order[stack[k].self][stack[k].sig]
            /\ stack[k].pos \in 1..Len(stack[k].snap)
            /\ stack[k].inv = SubSeq(order[stack[k].self][stack[k].sig], 1, stack[k].pos))
    /\ [][/\ \A a \in Atoms, s \in Signals :
                (/\ hist'.op = "emit" /\ hist'.sig = s
                 /\ Atom_emit(a, s) /\ stack' = stack) => order[a][s] = << >>
          /\ (stack # << >> /\ Return(TRUE) /\ Len(stack') < Len(stack)) =>
                stack[Len(stack)].inv = order[stack[Len(stack)].self][stack[Len(stack)].sig]
         ]_vars

(* Three different callbacks connected to one signal, all invoked in the   *)
(* order of their connect calls, in a table that holds another signal too. *)
C7_Witness ==
    /\ stack # << >>
    /\ LET f == stack[Len(stack)]
       IN  /\ Len(f.snap) = 3 /\ f.pos = 3
           /\ Cardinality({f.snap[i] : i \in 1..3}) = 3
           /\ f.inv = order[f.self][f.sig]
           /\ Len(m_cbsets[f.self].vec) = 2

(* C8: disconnect( sig, A ) takes one registration of A out of sig and     *)
(* nothing else: the callbacks of sig are afterwards the ones before with  *)
(* A's earliest registration left out, those of every other signal are     *)
(* unchanged, and an emit( sig ) dispatches to exactly the callbacks left; *)
(* when sig has no entry, disconnect( sig, A ) and disconnect( sig )       *)
(* change nothing and return None with no error.                           *)
C8_DisconnectOne ==
    [][\A a \in Atoms, s \in Signals :
          /\ \A c \in Callbacks : (/\ hist'.op = "disconnect" /\ hist'.sig = s /\ hist'.cb = c
                 /\ Atom_disconnect(a, s, c)) =>
                /\ hist'.ret = "None" /\ hist'.exc = ""
                /\ Registered(m_cbsets'[a].vec, s)
                       = Without(Registered(m_cbsets[a].vec, s), c)
                /\ \A t \in Signals \ {s} :
                       Registered(m_cbsets'[a].vec, t) = Registered(m_cbsets[a].vec, t)
                /\ ~HasEntry(m_cbsets[a].vec, s) => m_cbsets' = m_cbsets
          /\ (/\ hist'.op = "disconnect" /\ hist'.sig = s /\ hist'.cb = 0
              /\ Atom_disconnect(a, s, 0)
              /\ ~HasEntry(m_cbsets[a].vec, s)) =>
                /\ hist'.ret = "None" /\ hist'.exc = ""
                /\ m_cbsets' = m_cbsets
          /\ (hist'.op = "emit" /\ hist'.sig = s /\ Atom_emit(a, s)) =>
                IF Registered(m_cbsets[a].vec, s) = << >>
                THEN stack' = stack
                ELSE /\ stack'[Len(stack')].snap = Registered(m_cbsets[a].vec, s)
                     /\ hist'.cb = Registered(m_cbsets[a].vec, s)[1]
      ]_vars

(* After disconnect( sig, A ): sig keeps a callback B, A is gone from it,  *)
(* and another signal has its callback.                                    *)
C8_Witness ==
    /\ hist.op = "disconnect" /\ hist.sig # 0 /\ hist.cb # 0
    /\ LET vec == m_cbsets[hist.self].vec
       IN  /\ Registered(vec, hist.sig) # << >>
           /\ \A i \in 1..Len(Registered(vec, hist.sig)) :
                  Registered(vec, hist.sig)[i] # hist.cb
           /\ \E t \in Signals \ {hist.sig} : Registered(vec, t) # << >>

(* C9: disconnect() leaves the instance with no connection at all, however *)
(* many signals and callbacks were connected; an emit of any signal on an  *)
(* instance without connections invokes no callback and returns None; and  *)
(* only a connect gives the instance a connection again.                   *)
C9_DisconnectAll ==
    [][\A a \in Atoms :
          /\ (hist'.op = "disconnect" /\ hist'.sig = 0 /\ Atom_disconnect(a, 0, 0)) =>
                /\ m_cbsets'[a].vec = << >>
                /\ hist'.ret = "None" /\ hist'.exc = ""
          /\ \A s \in Signals :
                (/\ m_cbsets[a].vec = << >>
                 /\ hist'.op = "emit" /\ hist'.sig = s /\ Atom_emit(a, s)) =>
                /\ stack' = stack
                /\ hist'.ret = "None" /\ hist'.exc = ""
          /\ (m_cbsets[a].vec = << >> /\ m_cbsets'[a].vec # << >>) =>
                \E s \in Signals, c \in Callbacks : Atom_connect(a, s, c)
      ]_vars

(* A disconnect() that discarded the entries of two signals. *)
C9_Witness ==
    /\ hist.op = "disconnect" /\ hist.sig = 0 /\ hist.old = 2
    /\ m_cbsets[hist.self].alloc
    /\ m_cbsets[hist.self].vec = << >>

(* C10: emit( sig ) on an instance whose table has no entry for sig (no    *)
(* vector, an empty vector, or entries of other signals only) returns None *)
(* with no error, invokes no callback and leaves m_cbsets as it was, a     *)
(* null pointer included; the vector is made by a connect only.            *)
C10_UnconnectedEmit ==
    [][\A a \in Atoms :
          /\ \A s \in Signals :
                (hist'.op = "emit" /\ hist'.sig = s /\ Atom_emit(a, s)
                 /\ ~HasEntry(m_cbsets[a].vec, s)) =>
                    /\ m_cbsets' = m_cbsets
                    /\ stack' = stack
                    /\ hist'.ret = "None" /\ hist'.exc = ""
          /\ (~m_cbsets[a].alloc /\ m_cbsets'[a].alloc) =>
                \E s \in Signals, c \in Callbacks :
                    Atom_connect(a, s, c) /\ hist'.ret = "None"
      ]_vars

(* An emit of a signal that has no entry, in a table that holds another    *)
(* signal's callbacks, back with None.                                     *)
C10_Witness ==
    /\ hist.op = "emit" /\ hist.ret = "None" /\ hist.exc = "" /\ stack = << >>
    /\ hist.sig # 0
    /\ m_cbsets[hist.self].vec # << >>
    /\ ~HasEntry(m_cbsets[hist.self].vec, hist.sig)

-----------------------------------------------------------------------------
(* Properties of calls a callback makes on the instance while dispatch is  *)
(* running it: C2 and C4 under SpecReentrant, C3 under SpecTeardown.       *)

(* C2: a callback that calls disconnect( sig, cb ) during emit( sig ), on  *)
(* itself or on a callback dispatch has not reached yet, gets None back    *)
(* and leaves the dispatch as it was: the dispatch goes on through the     *)
(* callbacks it started with, each once and in order, none left out and    *)
(* none twice, to the last one unless one fails.  The table has lost the   *)
(* one registration, which is what the next emit( sig ) dispatches to.     *)
C2_ReentrantDisconnect ==
    /\ [](\A k \in 1..Len(stack) :
            /\ stack[k].pos \in 1..Len(stack[k].snap)
            /\ stack[k].inv = SubSeq(stack[k].snap, 1, stack[k].pos))
    /\ [][/\ \A a \in Atoms, s \in ReSignals, c \in ReCallbacks :
                (/\ stack # << >>
                 /\ hist'.op = "disconnect" /\ hist'.sig = s /\ hist'.cb = c
                 /\ Atom_disconnect(a, s, c)) =>
                    /\ stack' = stack
                    /\ hist'.ret = "None" /\ hist'.exc = ""
                    /\ Registered(m_cbsets'[a].vec, s)
                           = Without(Registered(m_cbsets[a].vec, s), c)
          /\ (stack # << >> /\ Return(TRUE)) =>
                IF Len(stack') < Len(stack)
                THEN stack[Len(stack)].inv = stack[Len(stack)].snap
                ELSE /\ stack'[Len(stack)].snap = stack[Len(stack)].snap
                     /\ hist'.cb = stack[Len(stack)].snap[stack[Len(stack)].pos + 1]
          /\ \A a \in Atoms, s \in ReSignals :
                (stack = << >> /\ hist'.op = "emit" /\ hist'.sig = s /\ Atom_emit(a, s)) =>
                    IF Registered(m_cbsets[a].vec, s) = << >>
                    THEN stack' = stack
                    ELSE stack'[1].snap = Registered(m_cbsets[a].vec, s)
         ]_vars

(* Dispatch invokes a callback that an earlier callback of the same        *)
(* dispatch has disconnected: the table holds the snapshot less that       *)
(* callback.                                                               *)
C2_Witness ==
    /\ stack # << >>
    /\ hist.op = "next"
    /\ LET f == stack[Len(stack)]
           vec == m_cbsets[f.self].vec
       IN  /\ hist.cb = f.snap[f.pos]
           /\ HasEntry(vec, f.sig)
           /\ Registered(vec, f.sig) # f.snap
           /\ Registered(vec, f.sig) = Without(f.snap, hist.cb)

(* C3: disconnect(), disconnect( sig ) on the signal being dispatched and  *)
(* tp_clear, called by a callback during emit( sig ), leave the dispatch   *)
(* as it was, and it goes on through the callbacks it started with; the    *)
(* table is empty afterwards (after disconnect( sig ): has no entry for    *)
(* sig and the other signals as before), and tp_clear leaves every slot    *)
(* and the member mapping null.                                            *)
C3_TeardownDuringDispatch ==
    /\ [](\A k \in 1..Len(stack) :
            /\ stack[k].pos \in 1..Len(stack[k].snap)
            /\ stack[k].inv = SubSeq(stack[k].snap, 1, stack[k].pos)
            /\ stack[k].inv[stack[k].pos] = stack[k].snap[stack[k].pos])
    /\ [][/\ \A a \in Atoms :
                (/\ stack # << >>
                 /\ hist'.op = "disconnect" /\ hist'.sig = 0
                 /\ Atom_disconnect(a, 0, 0)) =>
                    /\ stack' = stack
                    /\ hist'.ret = "None" /\ hist'.exc = ""
                    /\ m_cbsets'[a].vec = << >>
          /\ \A a \in Atoms, s \in ReSignals :
                (/\ stack # << >>
                 /\ hist'.op = "disconnect" /\ hist'.sig = s /\ hist'.cb = 0
                 /\ Atom_disconnect(a, s, 0)) =>
                    /\ stack' = stack
                    /\ hist'.ret = "None" /\ hist'.exc = ""
                    /\ ~HasEntry(m_cbsets'[a].vec, s)
                    /\ \A t \in ReSignals \ {s} :
                           Registered(m_cbsets'[a].vec, t) = Registered(m_cbsets[a].vec, t)
          /\ \A a \in Atoms :
                (stack # << >> /\ hist'.op = "clear" /\ Atom_clear(a)) =>
                    /\ stack' = stack
                    /\ m_cbsets'[a].vec = << >>
                    /\ m_members'[a].null
                    /\ \A i \in DOMAIN m_values'[a] : m_values'[a][i] = 0
          /\ \A ok \in BOOLEAN : (stack # << >> /\ Return(ok)) =>
                IF Len(stack') < Len(stack)
                THEN ok => stack[Len(stack)].inv = stack[Len(stack)].snap
                ELSE /\ ok
                     /\ stack'[Len(stack)].snap = stack[Len(stack)].snap
                     /\ hist'.cb = stack[Len(stack)].snap[stack[Len(stack)].pos + 1]
         ]_vars

(* Dispatch invokes the next callback of the set it started with on an     *)
(* instance that a callback of this dispatch has cleared: no table entry,  *)
(* no member mapping.                                                      *)
C3_Witness ==
    /\ stack # << >>
    /\ hist.op = "next"
    /\ LET f == stack[Len(stack)]
       IN  /\ f.pos = 2 /\ hist.cb = f.snap[2]
           /\ m_members[f.self].null
           /\ m_cbsets[f.self].alloc
           /\ m_cbsets[f.self].vec = << >>

(* C4: a callback that calls connect during emit( sig ), for the signal    *)
(* being dispatched or for a signal that had no entry, gets None back and  *)
(* leaves the dispatch as it was: the dispatch goes on through the         *)
(* callbacks it started with, each once, and never calls the new one.  The *)
(* table, still sorted by signal, holds the new registration last in its   *)
(* signal's set and every other signal as before, which is what a later    *)
(* emit dispatches to.                                                     *)
C4_ReentrantConnect ==
    /\ [](/\ \A k \in 1..Len(stack) :
               /\ stack[k].pos \in 1..Len(stack[k].snap)
               /\ stack[k].inv = SubSeq(stack[k].snap, 1, stack[k].pos)
          /\ \A a \in Atoms : \A i \in 1..Len(m_cbsets[a].vec) :
               \A j \in (i + 1)..Len(m_cbsets[a].vec) :
                   m_cbsets[a].vec[i].first < m_cbsets[a].vec[j].first)
    /\ [][/\ \A a \in Atoms, s \in ReSignals, c \in ReCallbacks :
                (/\ stack # << >>
                 /\ hist'.op = "connect" /\ hist'.sig = s /\ hist'.cb = c
                 /\ Atom_connect(a, s, c)) =>
                    /\ stack' = stack
                    /\ hist'.ret = "None" /\ hist'.exc = ""
                    /\ Registered(m_cbsets'[a].vec, s)
                           = Append(Registered(m_cbsets[a].vec, s), c)
                    /\ \A t \in ReSignals \ {s} :
                           Registered(m_cbsets'[a].vec, t) = Registered(m_cbsets[a].vec, t)
          /\ \A ok \in BOOLEAN : (stack # << >> /\ Return(ok)) =>
                IF Len(stack') < Len(stack)
                THEN ok => stack[Len(stack)].inv = stack[Len(stack)].snap
                ELSE /\ stack'[Len(stack)].snap = stack[Len(stack)].snap
                     /\ stack'[Len(stack)].inv
                            = SubSeq(stack[Len(stack)].snap, 1, stack[Len(stack)].pos + 1)
          /\ \A a \in Atoms, s \in ReSignals :
                (/\ stack = << >> /\ stack' # stack
                 /\ hist'.op = "emit" /\ hist'.sig = s /\ Atom_emit(a, s)) =>
                    /\ stack'[1].snap = Registered(m_cbsets[a].vec, s)
                    /\ stack'[1].inv = <<Registered(m_cbsets[a].vec, s)[1]>>
         ]_vars

(* A callback has connected a signal that sorts before the one being       *)
(* dispatched: the table has the new entry in front, and the dispatch,     *)
(* which has come to its end, called the callbacks it started with.        *)
C4_Witness ==
    /\ stack # << >>
    /\ hist.op = "connect"
    /\ LET f == stack[Len(stack)]
           vec == m_cbsets[f.self].vec
       IN  /\ hist.sig < f.sig
           /\ Len(vec) = 2
           /\ vec[1] = CSPair(hist.sig, <<hist.cb>>)
           /\ vec[2] = CSPair(f.sig, f.snap)
           /\ f.inv = f.snap

-----------------------------------------------------------------------------
(* Properties of the life of instances, under SpecLife. *)

(* C11, as stated: in every reachable state the slot array of every        *)
(* instance is as long as the member mapping its type has registered,      *)
(* whatever registerMembers call came after the instance was made.         *)
C11_SlotCountOfClass ==
    \A a \in Atoms :
        ~m_members[a].null =>
            Len(m_values[a]) = Len(LookupMembers(ob_type[a]).members)

(* C11, amended: in every reachable state the slot array of every instance *)
(* is as long as the member mapping the instance holds, the one its type   *)
(* had registered when the instance was made, and no step changes that     *)
(* length: not the making of other instances, not a get, set or delete,    *)
(* not a connect, disconnect or emit, not a registerMembers.               *)
C11_SlotCount ==
    /\ [](\A a \in Atoms :
            ~m_members[a].null => Len(m_values[a]) = Len(m_members[a].dict))
    /\ [][\A a \in Atoms : Len(m_values'[a]) = Len(m_values[a])]_vars

(* Two instances made with mappings of different sizes, the first one with *)
(* a slot filled and a signal connected, and the type registered since     *)
(* with a mapping of another size than the first instance holds.           *)
C11_Witness ==
    /\ Len(m_members) = 2
    /\ Len(m_values[1]) # Len(m_values[2])
    /\ \E i \in DOMAIN m_values[1] : m_values[1][i] # 0
    /\ m_cbsets[1].vec # << >>
    /\ hist.op = "register"
    /\ Len(LookupMembers(ob_type[1]).members) # Len(m_values[1])

-----------------------------------------------------------------------------
(* Properties of the argument checks, under SpecArgs. *)

(* C12: a connect whose signal is no Signal or whose callback is not       *)
(* callable, a disconnect given such a signal or such a callback, and an   *)
(* emit with no argument or with one that is no Signal, each return null   *)
(* with TypeError set and leave the connection table as it was: the vector *)
(* is not allocated, no entry and no registration comes or goes, none goes *)
(* when the signal of a disconnect is no Signal, and no dispatch starts.   *)
C12_TypeErrorNoEffect ==
    [][LET Fails == /\ hist'.ret = "NULL"
                    /\ hist'.exc = "TypeError"
                    /\ m_cbsets' = m_cbsets
                    /\ stack' = stack
                    /\ order' = order
       IN  /\ \A a \in Atoms, s \in AnySignal, c \in AnyCallback :
                (/\ hist'.op = "connect"
                 /\ ~TypeCheck(s) \/ ~PyCallable_Check(c)
                 /\ Atom_connect(a, s, c)) => Fails
           /\ \A a \in Atoms, s \in {0} \cup AnySignal, c \in {0} \cup AnyCallback :
                (/\ hist'.op = "disconnect"
                 /\ (s # 0 /\ ~TypeCheck(s)) \/ (c # 0 /\ ~PyCallable_Check(c))
                 /\ Atom_disconnect(a, s, c)) => Fails
           /\ \A a \in Atoms, s \in {0, NotSignal} :
                (hist'.op = "emit" /\ Atom_emit(a, s)) => Fails
           /\ hist'.exc = "TypeError" => Fails]_vars

(* A disconnect has just failed with TypeError on an instance that holds   *)
(* two registrations or more, of two signals.                              *)
C12_Witness ==
    /\ hist.op = "disconnect"
    /\ hist.exc = "TypeError"
    /\ Len(m_cbsets[1].vec) = 2
    /\ Regs(m_cbsets[1].vec) >= 2

-----------------------------------------------------------------------------
(* Properties of repeated connections, under SpecSignals. *)

(* C13: connect does not look for the callback in the set: every connect,  *)
(* of a callback the signal is connected to already included, adds one     *)
(* registration of it; an emit calls a callback as many times as the       *)
(* signal holds registrations of it; and a disconnect( sig, callback )     *)
(* takes one registration away, so that a callback connected twice is      *)
(* still connected once.                                                   *)
C13_NoDeduplication ==
    /\ [](\A k \in 1..Len(stack) :
            stack[k].inv = SubSeq(stack[k].snap, 1, stack[k].pos))
    /\ [][\A a \in Atoms, s \in Signals, c \in Callbacks :
            LET before == Count(Registered(m_cbsets[a].vec, s), c)
                after == Count(Registered(m_cbsets'[a].vec, s), c)
            IN  /\ (hist'.op = "connect" /\ hist'.self = a /\ hist'.sig = s
                    /\ hist'.cb = c /\ hist'.ret = "None") =>
                        after = before + 1
                /\ (hist'.op = "disconnect" /\ hist'.self = a /\ hist'.sig = s
                    /\ hist'.cb = c /\ hist'.ret = "None") =>
                        after = IF before = 0 THEN 0 ELSE before - 1
                /\ (hist'.op = "emit" /\ hist'.self = a /\ hist'.sig = s
                    /\ hist'.exc = "") =>
                        IF before = 0
                        THEN \A k \in 1..Len(stack') :
                                k > Len(stack) => Count(stack'[k].snap, c) = 0
                        ELSE /\ Len(stack') = Len(stack) + 1
                             /\ Count(stack'[Len(stack')].snap, c) = before]_vars

(* One emit has called the same callback twice, for its two registrations. *)
C13_Witness ==
    /\ hist.op = "next"
    /\ stack # << >>
    /\ stack[Len(stack)].snap = <<1, 1>>
    /\ stack[Len(stack)].inv = <<1, 1>>
    /\ Registered(m_cbsets[1].vec, stack[Len(stack)].sig) = <<1, 1>>

-----------------------------------------------------------------------------
(* Properties of deletion, under SpecSlots. *)

(* C14: a set with a null value (a deletion) of a member returns 0 with no *)
(* error, does not call validate and leaves the slot null, whatever the    *)
(* slot held and whatever validate would have answered; a set of a member  *)
(* with a value calls validate, and the slot is other than before the call *)
(* only when validate succeeded, and then holds what validate returned.    *)
C14_DeleteUnchecked ==
    \A a \in Atoms :
        (hist.self = a /\ hist.op \in {"set", "del"}
         /\ IsMember(m_members[a].dict, hist.name)) =>
            LET slot == m_values[a][index(m_members[a].dict, hist.name) + 1]
            IN  /\ hist.op = "del" =>
                    /\ hist.val = 0
                    /\ hist.ret = "0"
                    /\ hist.exc = ""
                    /\ ~hist.vcall
                    /\ slot = 0
                /\ hist.op = "set" =>
                    /\ hist.val # 0
                    /\ hist.vcall
                    /\ hist.ret = "-1" => slot = hist.old
                    /\ hist.ret = "0" => slot # 0
                    /\ slot # hist.old => hist.ret = "0"

(* A member that held a value has just been deleted. *)
C14_Witness ==
    /\ hist.op = "del"
    /\ hist.old # 0
    /\ IsMember(m_members[1].dict, hist.name)
    /\ m_values[1][index(m_members[1].dict, hist.name) + 1] = 0

-----------------------------------------------------------------------------
(* Properties of construction and registration, under SpecLife. *)

(* C15: making an instance of a type that has no registered members fails  *)
(* with a ConfigurationError and makes no instance; making one of a        *)
(* registered type stores in it the mapping registered at that moment; and *)
(* no step, a later registerMembers for the type included, changes the     *)
(* mapping an instance holds: registerMembers changes the registry's entry *)
(* of its type and nothing else.                                           *)
C15_ConstructionMapping ==
    [][/\ \A t \in Types, n \in 0..1, kw \in LifeKwargs :
            (hist'.op = "new" /\ Atom_new(t, n, kw)) =>
                IF ~LookupMembers(t).set
                THEN /\ hist'.ret = "NULL"
                     /\ hist'.exc = "ConfigurationError"
                     /\ Len(m_members') = Len(m_members)
                ELSE hist'.ret = "object" =>
                     /\ Len(m_members') = Len(m_members) + 1
                     /\ ob_type'[Len(m_members')] = t
                     /\ m_members'[Len(m_members')] =
                            [null |-> FALSE, dict |-> LookupMembers(t).members]
       /\ \A a \in Atoms : m_members'[a] = m_members[a] /\ ob_type'[a] = ob_type[a]
       /\ hist'.op = "register" =>
            /\ m_members' = m_members
            /\ m_values' = m_values
            /\ \E t \in Types : \A u \in Types \ {t} : registry'[u] = registry[u]]_vars

-----------------------------------------------------------------------------
(* Properties of tp_clear, under SpecClear. *)

(* C16: every Atom_clear returns 0 and leaves every slot null, the vector  *)
(* without any entry (no signal and no callback is held) and the member    *)
(* mapping null; and an Atom_clear that follows an Atom_clear of the same  *)
(* instance returns 0 too and leaves the slots, the vector and the member  *)
(* mapping as it found them.                                               *)
C16_ClearIdempotent ==
    /\ [](\A a \in Atoms :
            (hist.op = "clear" /\ hist.self = a) =>
                /\ hist.ret = "0"
                /\ hist.exc = ""
                /\ \A i \in DOMAIN m_values[a] : m_values[a][i] = 0
                /\ m_cbsets[a].vec = << >>
                /\ \A s \in Signals : Registered(m_cbsets[a].vec, s) = << >>
                /\ m_members[a] = NullMembers)
    /\ [][\A a \in Atoms :
            (hist.op = "clear" /\ hist.self = a /\ Atom_clear(a)) =>
                /\ hist'.ret = "0"
                /\ hist'.old = 1
                /\ m_values' = m_values
                /\ m_cbsets' = m_cbsets
                /\ m_members' = m_members
                /\ stack' = stack]_vars

(* An instance that had a slot set and a signal connected has been cleared *)
(* a second time.                                                          *)
C16_Witness ==
    /\ hist.op = "clear"
    /\ hist.old = 1
    /\ \E i \in DOMAIN calls[1] : calls[1][i].set
    /\ m_cbsets[1].alloc
    /\ Len(m_values[1]) = 2

-----------------------------------------------------------------------------
(* Properties of the default over gets, sets and deletions, under          *)
(* SpecSlots.                                                              *)

(* C17, as stated: over any gets, sets and deletions, gets whose default   *)
(* fails and gets after a deletion included, defaultValue is called at     *)
(* most once for each slot of an instance.                                 *)
C17_DefaultAtMostOncePerSlot ==
    \A a \in Atoms : \A i \in DOMAIN calls[a] : calls[a][i].n <= 1

(* C17, amended: over any gets, sets and deletions, defaultValue is called *)
(* for a slot by a get that finds the slot null and by nothing else, once  *)
(* by that get; when it succeeds the slot holds a value, when it fails the *)
(* slot is still null and the get returns the failure; and a slot that     *)
(* holds a value becomes null by a deletion only.  So for each slot the    *)
(* default is computed with success at most once until the slot is         *)
(* deleted, and again at most once after each deletion.                    *)
C17_DefaultPerUnsetSlot ==
    [][\A a \in Atoms : \A i \in DOMAIN calls[a] :
          LET found == m_values[a][i]
              left == m_values'[a][i]
              get == /\ hist'.op = "get" /\ hist'.self = a
                     /\ index(m_members[a].dict, hist'.name) + 1 = i
          IN  /\ calls'[a][i].n # calls[a][i].n => get /\ found = 0
              /\ (get /\ found = 0) =>
                    /\ hist'.dcall
                    /\ calls'[a][i].n = calls[a][i].n + 1
                    /\ calls'[a][i].ok \in {calls[a][i].ok, calls[a][i].ok + 1}
                    /\ calls'[a][i].ok = calls[a][i].ok + 1 =>
                          left # 0 /\ hist'.val = left
                    /\ calls'[a][i].ok = calls[a][i].ok =>
                          left = 0 /\ hist'.ret = "NULL"
              /\ (get /\ found # 0) =>
                    /\ ~hist'.dcall
                    /\ calls'[a][i] = calls[a][i]
                    /\ left = found
              /\ (found # 0 /\ left = 0) =>
                    /\ hist'.op = "del" /\ hist'.self = a
                    /\ index(m_members[a].dict, hist'.name) + 1 = i]_vars

(* The default of a member has been computed with success a second time,   *)
(* by the get that followed a deletion of the member.                      *)
C17_Witness ==
    /\ hist.op = "get" /\ hist.dcall /\ hist.val # 0
    /\ IsMember(m_members[hist.self].dict, hist.name)
    /\ LET c == calls[hist.self][index(m_members[hist.self].dict, hist.name) + 1]
       IN  c.set /\ c.ok = 2 /\ c.n = 2

-----------------------------------------------------------------------------
(* Properties of the vector's order, under SpecReentrant. *)

(* C18: in every state reached by connect, the three forms of disconnect   *)
(* and emit, calls made by running callbacks included, the vector of an    *)
(* instance is strictly ascending in its signals, so no signal has two     *)
(* entries, and the binary search answers for every signal what a look at  *)
(* every entry answers: binaryFind the entry of the signal when there is   *)
(* one and end() when there is none, lowerBound the place where the entry  *)
(* is or belongs.                                                          *)
C18_SortedTable ==
    \A a \in Atoms :
        LET vec == m_cbsets[a].vec
        IN  /\ \A i \in 1..(Len(vec) - 1) : vec[i].first < vec[i + 1].first
            /\ \A i, j \in 1..Len(vec) : vec[i].first = vec[j].first => i = j
            /\ \A s \in Signals :
                 /\ binaryFind(vec, s) # End(vec) <=> HasEntry(vec, s)
                 /\ HasEntry(vec, s) =>
                        /\ vec[binaryFind(vec, s)].first = s
                        /\ lowerBound(vec, s) = binaryFind(vec, s)
                 /\ \A i \in 1..Len(vec) :
                        (i < lowerBound(vec, s)) = (vec[i].first < s)

(* A running callback has connected a signal that sorts before the one     *)
(* entry the vector had, and the vector holds the two entries in order.    *)
C18_Witness ==
    /\ stack # << >>
    /\ hist.op = "connect"
    /\ Len(m_cbsets[1].vec) = 2
    /\ m_cbsets[1].vec[1].first = hist.sig
    /\ m_cbsets[1].vec[1].second = <<hist.cb>>
    /\ m_cbsets[1].vec[2].first = stack[1].sig

-----------------------------------------------------------------------------
(* Properties of the vector's entries, under SpecSignals. *)

(* C19, as stated: after any connects and disconnects the vector has an    *)
(* entry for a signal exactly when a callback is registered for the        *)
(* signal; so none is left when disconnect( sig, callback ) has taken out  *)
(* the last one.                                                           *)
C19_EntryIffRegistered ==
    \A a \in Atoms, s \in Signals :
        HasEntry(m_cbsets[a].vec, s) <=> Registered(m_cbsets[a].vec, s) # << >>

(* C19, amended: a signal with a callback registered has an entry; a       *)
(* connect leaves its signal with an entry, disconnect( sig ) leaves sig   *)
(* without one and disconnect() leaves no entry at all, and these two are  *)
(* the only calls after which an entry is gone; disconnect( sig, callback )*)
(* takes a registration out of the entry's set and leaves every entry in   *)
(* place, that of sig too when its set has become empty.                   *)
C19_EntriesRemoved ==
    /\ [](\A a \in Atoms, s \in Signals :
            Registered(m_cbsets[a].vec, s) # << >> => HasEntry(m_cbsets[a].vec, s))
    /\ [][\A a \in Atoms, s \in Signals :
            LET had == HasEntry(m_cbsets[a].vec, s)
                has == HasEntry(m_cbsets'[a].vec, s)
                call == hist'.self = a /\ hist'.ret = "None"
            IN  /\ (call /\ hist'.op = "connect" /\ hist'.sig = s) => has
                /\ (call /\ hist'.op = "disconnect" /\ hist'.sig = 0) => ~has
                /\ (call /\ hist'.op = "disconnect" /\ hist'.sig = s /\ hist'.cb = 0) =>
                        ~has
                /\ (call /\ hist'.op = "disconnect" /\ hist'.sig # 0 /\ hist'.cb # 0) =>
                        /\ has = had
                        /\ Len(m_cbsets'[a].vec) = Len(m_cbsets[a].vec)
                /\ (had /\ ~has) =>
                        /\ hist'.op = "disconnect" /\ hist'.self = a
                        /\ hist'.cb = 0
                        /\ hist'.sig \in {0, s}]_vars

(* A disconnect( sig, callback ) has taken out the last registration of    *)
(* sig, and sig still has its entry, with an empty set.                    *)
C19_Witness ==
    /\ hist.op = "disconnect"
    /\ hist.cb # 0
    /\ order[1][hist.sig] = << >>
    /\ HasEntry(m_cbsets[1].vec, hist.sig)
    /\ Registered(m_cbsets[1].vec, hist.sig) = << >>

-----------------------------------------------------------------------------
(* Properties of two instances side by side, under SpecTwo. *)

(* C20: a connect, a disconnect, an emit and the return of a callback      *)
(* leave every slot of every instance as it was; a get, a set and a        *)
(* deletion leave the vector of every instance and the dispatches in       *)
(* progress as they were, and change no slot but the one at the index of   *)
(* their member in their instance; and no call on an instance changes a    *)
(* slot or the vector of another instance, of the same type as it is here. *)
C20_Isolation ==
    [][/\ hist'.op \in {"connect", "disconnect", "emit", "next", "emit_return"} =>
            m_values' = m_values
       /\ hist'.op \in {"get", "set", "del"} =>
            /\ m_cbsets' = m_cbsets
            /\ stack' = stack
            /\ \A a \in Atoms : \A i \in DOMAIN m_values[a] :
                   m_values'[a][i] # m_values[a][i] =>
                       /\ a = hist'.self
                       /\ i = index(m_members[a].dict, hist'.name) + 1
       /\ \A b \in Atoms :
            b # hist'.self =>
                /\ m_values'[b] = m_values[b]
                /\ m_cbsets'[b] = m_cbsets[b]
                /\ m_members'[b] = m_members[b]
       /\ hist'.op \in {"emit_return", "next"} => m_cbsets' = m_cbsets
       /\ ob_type[1] = ob_type[2]]_vars

(* A member of the second instance has just been deleted while the first   *)
(* instance, of the same type, holds a value for it and a callback         *)
(* connected, and the second holds a value for its other member and a      *)
(* callback connected too.                                                 *)
C20_Witness ==
    /\ hist.op = "del" /\ hist.self = 2 /\ hist.old # 0
    /\ m_values[1][index(m_members[1].dict, hist.name) + 1] # 0
    /\ m_values[2][index(m_members[2].dict, hist.name) + 1] = 0
    /\ \E i \in DOMAIN m_values[2] : m_values[2][i] # 0
    /\ Registered(m_cbsets[1].vec, 1) # << >>
    /\ Registered(m_cbsets[2].vec, 1) # << >>

=============================================================================
